---- MODULE Spec2Model ----
(***************************************************************************)
(* Wallet resolution of cli/src/opts/wallet/multi_wallet.rs:               *)
(* MultiWallet::find_all and the adapters it pulls wallets from.           *)
(***************************************************************************)
EXTENDS Integers, Sequences, FiniteSets, TLC

VARIABLES
    self,            \* the MultiWallet configuration (the struct's fields)
    script_wallets,  \* find_all's argument: the pre-instantiated wallets
    addresses,       \* find_all's `mut addresses`: the remaining targets
    targets,         \* the value of `addresses` on entry (ghost, never written)
    chain,           \* Option<u64>: the chain id once queried
    pc,              \* position in find_all
    cur,             \* index in Order of the adapter being evaluated
    wallets,         \* the rest of the list the `for wallet in wallets` loop walks
    local_wallets,   \* HashMap<Address, WalletType>
    unused_wallets,  \* Vec<Address>
    invoked,         \* adapters called so far, in call order (ghost)
    io,              \* external interactions so far, in order (ghost)
    emitted,         \* wallets the matching loop has taken so far (ghost)
    result           \* what find_all returned

vars == <<self, script_wallets, addresses, targets, chain, pc, cur, wallets,
          local_wallets, unused_wallets, invoked, io, emitted, result>>

----------------------------------------------------------------------------
\* Bounds of the model.
NumAddr == 3     \* addresses are 1..NumAddr
MaxLen == 2      \* longest configured list
MaxLocal == 2    \* most software wallets configured together

\* Config::DEFAULT_SENDER, one of the addresses.
DEFAULT_SENDER == 1

Addr == 1..NumAddr
Keys == 0..NumAddr        \* private key strings; 0 is not a well-formed key
Phrases == 0..NumAddr     \* mnemonic phrases; 0 is malformed
Paths == 1..NumAddr       \* derivation path strings
Indexes == 0..(NumAddr - 1)
ChainIds == {1, 5}

\* Option<T> for a scalar T and for a Vec<T>.
None == [some |-> FALSE, v |-> 0]
Some(x) == [some |-> TRUE, v |-> x]
NoneVec == [some |-> FALSE, v |-> <<>>]

SeqsUpTo(S, n) == UNION {[1..k -> S] : k \in 0..n}
\* An Option<Vec<T>> argument with ArgAction::Append: absent, or the values
\* given, at least one.
OptVec(S, n) == {NoneVec} \cup {Some(s) : s \in SeqsUpTo(S, n) \ {<<>>}}

unwrap_or(o, d) == IF o.some THEN o.v ELSE d

\* The address an external signer library yields: any fixed, non-injective map
\* of the secret material onto the address space.
AddrOf(n) == (n % NumAddr) + 1

\* A signing identity: the adapter it came from, its place in that adapter's
\* list, what it was derived from, its address and the chain id it is bound to.
Wallet(src, pos, path, index, secret, pass, address) ==
    [src |-> src, pos |-> pos, path |-> path, index |-> index,
     secret |-> secret, pass |-> pass, address |-> address, chain |-> None]

\* One external interaction: a device request, a prompt read, a file read.
Io(op, path, index, secret, pass, ok) ==
    [op |-> op, path |-> path, index |-> index, secret |-> secret,
     pass |-> pass, ok |-> ok]

\* What an adapter call returns: Err(e), Ok(None) or Ok(Some(wallets)), and the
\* external interactions it made.
AdapterErr(e, log) == [ok |-> FALSE, err |-> e, some |-> FALSE, wallets |-> <<>>, io |-> log]
AdapterNone == [ok |-> TRUE, err |-> "", some |-> FALSE, wallets |-> <<>>, io |-> <<>>]
AdapterSome(ws, log) == [ok |-> TRUE, err |-> "", some |-> TRUE, wallets |-> ws, io |-> log]

Min(a, b) == IF a < b THEN a ELSE b

----------------------------------------------------------------------------
\* Hardware wallets.

\* get_from_trezor / get_from_ledger: the derivation asked of the device is
\* Other(path) when a path is given, else Live(index.unwrap_or(0)).
Derivation(hd_path, mnemonic_index) ==
    IF hd_path.some THEN [style |-> "Other", v |-> hd_path.v]
    ELSE [style |-> "Live", v |-> unwrap_or(mnemonic_index, 0)]

get_from_trezor(pos, hd_path, mnemonic_index) ==
    LET d == Derivation(hd_path, mnemonic_index)
    IN Wallet("trezors", pos, IF d.style = "Other" THEN Some(d.v) ELSE None,
              IF d.style = "Live" THEN Some(d.v) ELSE None, 0, None, AddrOf(d.v))

get_from_ledger(pos, hd_path, mnemonic_index) ==
    LET d == Derivation(hd_path, mnemonic_index)
    IN Wallet("ledgers", pos, IF d.style = "Other" THEN Some(d.v) ELSE None,
              IF d.style = "Live" THEN Some(d.v) ELSE None, 0, None, AddrOf(d.v + 1))

\* The requests create_hw_wallets! makes when no device call fails: one per
\* configured path, then one per configured index, and index 0 alone when
\* that left the list empty.
HwRequests(args) ==
    LET fromPaths == IF args.hd_paths.some
                     THEN [i \in 1..Len(args.hd_paths.v) |->
                              [hd_path |-> Some(args.hd_paths.v[i]), mnemonic_index |-> None]]
                     ELSE <<>>
        fromIndexes == IF args.mnemonic_indexes.some
                       THEN [i \in 1..Len(args.mnemonic_indexes.v) |->
                                [hd_path |-> None, mnemonic_index |-> Some(args.mnemonic_indexes.v[i])]]
                       ELSE <<>>
        listed == fromPaths \o fromIndexes
    IN IF listed = <<>>
       THEN <<[hd_path |-> None, mnemonic_index |-> Some(0)]>>
       ELSE listed

create_hw_wallets_FirstOnly(args, dev, fail_at) ==
    LET reqs == SubSeq(HwRequests(args), 1, 1)
        made == IF fail_at = 0 THEN Len(reqs) ELSE Min(fail_at, Len(reqs))
        log == [i \in 1..made |->
                   LET d == Derivation(reqs[i].hd_path, reqs[i].mnemonic_index)
                   IN Io(dev, IF d.style = "Other" THEN Some(d.v) ELSE None,
                         IF d.style = "Live" THEN Some(d.v) ELSE None, 0, None,
                         i # fail_at)]
        ws == [i \in 1..Len(reqs) |->
                  IF dev = "trezor"
                  THEN get_from_trezor(i, reqs[i].hd_path, reqs[i].mnemonic_index)
                  ELSE get_from_ledger(i, reqs[i].hd_path, reqs[i].mnemonic_index)]
    IN IF fail_at \in 1..Len(reqs)
       THEN AdapterErr("DeviceUnavailable", log)
       ELSE AdapterSome(ws, log)

create_hw_wallets_Partial(args, dev, fail_at) ==
    LET reqs == HwRequests(args)
        made == IF fail_at = 0 THEN Len(reqs) ELSE Min(fail_at, Len(reqs))
        log == [i \in 1..made |->
                   LET d == Derivation(reqs[i].hd_path, reqs[i].mnemonic_index)
                   IN Io(dev, IF d.style = "Other" THEN Some(d.v) ELSE None,
                         IF d.style = "Live" THEN Some(d.v) ELSE None, 0, None,
                         i # fail_at)]
        ws == [i \in 1..Len(reqs) |->
                  IF dev = "trezor"
                  THEN get_from_trezor(i, reqs[i].hd_path, reqs[i].mnemonic_index)
                  ELSE get_from_ledger(i, reqs[i].hd_path, reqs[i].mnemonic_index)]
    IN IF fail_at \in 1..Len(reqs)
       THEN AdapterSome(SubSeq(ws, 1, fail_at - 1), log)
       ELSE AdapterSome(ws, log)

\* create_hw_wallets!: the requests are awaited one after the other; the `?` on
\* the one numbered fail_at (0: none fails) returns the error and drops the
\* wallets obtained before it.
create_hw_wallets(args, dev, fail_at) ==
    LET reqs == HwRequests(args)
        made == IF fail_at = 0 THEN Len(reqs) ELSE Min(fail_at, Len(reqs))
        log == [i \in 1..made |->
                   LET d == Derivation(reqs[i].hd_path, reqs[i].mnemonic_index)
                   IN Io(dev, IF d.style = "Other" THEN Some(d.v) ELSE None,
                         IF d.style = "Live" THEN Some(d.v) ELSE None, 0, None,
                         i # fail_at)]
        ws == [i \in 1..Len(reqs) |->
                  IF dev = "trezor"
                  THEN get_from_trezor(i, reqs[i].hd_path, reqs[i].mnemonic_index)
                  ELSE get_from_ledger(i, reqs[i].hd_path, reqs[i].mnemonic_index)]
    IN IF fail_at \in 1..Len(reqs)
       THEN AdapterErr("DeviceUnavailable", log)
       ELSE AdapterSome(ws, log)

trezors(s, fail_at) ==
    IF s.trezor THEN create_hw_wallets(s, "trezor", fail_at) ELSE AdapterNone

ledgers_KeepIndexes(s, fail_at) ==
    IF s.ledger
    THEN IF s.hd_paths.some /\ Len(s.hd_paths.v) > 1
         THEN AdapterErr("MultiPathUnsupported", <<>>)
         ELSE create_hw_wallets(s, "ledger", fail_at)
    ELSE AdapterNone

ledgers(s, fail_at) ==
    IF s.ledger
    THEN IF s.hd_paths.some /\ Len(s.hd_paths.v) > 1
         THEN AdapterErr("MultiPathUnsupported", <<>>)
         ELSE LET args == IF s.hd_paths.some
                          THEN [s EXCEPT !.mnemonic_indexes = NoneVec]
                          ELSE s
              IN create_hw_wallets(args, "ledger", fail_at)
    ELSE AdapterNone

----------------------------------------------------------------------------
\* Software wallets.

\* WalletTrait::get_from_private_key: a well-formed key gives its wallet.
get_from_private_key(src, pos, key) ==
    Wallet(src, pos, None, None, key, None, AddrOf(key))

\* The first position of a list whose item fails (`?` returns there), 0 when
\* none does.
FirstBad(bads) ==
    IF \E i \in 1..Len(bads) : bads[i]
    THEN CHOOSE i \in 1..Len(bads) : bads[i] /\ \A j \in 1..(i - 1) : ~bads[j]
    ELSE 0

BadKey(k) == k \notin Keys \ {0}

private_keys(s) ==
    IF s.private_keys.some
    THEN LET ks == s.private_keys.v
             bad == FirstBad([i \in 1..Len(ks) |-> BadKey(ks[i])])
             made == IF bad = 0 THEN Len(ks) ELSE bad
             log == [i \in 1..made |-> Io("private_key", None, None, ks[i], None, i # bad)]
         IN IF bad # 0
            THEN AdapterErr("InvalidKey", log)
            ELSE AdapterSome([i \in 1..Len(ks) |-> get_from_private_key("private_keys", i, ks[i])], log)
    ELSE AdapterNone

\* The secure prompt hands back what the operator typed, or -1 when the read
\* is cancelled.
PromptAbort == -1
PromptInputs == {PromptAbort} \cup Keys

interactives_StopAtFirst(s, typed) ==
    IF s.interactives # 0
    THEN LET n == 1
             bad == FirstBad([i \in 1..n |-> BadKey(typed[i])])
             made == IF bad = 0 THEN n ELSE bad
             log == [i \in 1..made |-> Io("prompt", None, None, typed[i], None, i # bad)]
         IN IF bad # 0
            THEN AdapterErr(IF typed[bad] = PromptAbort THEN "PromptAborted" ELSE "InvalidKey", log)
            ELSE AdapterSome([i \in 1..n |-> get_from_private_key("interactives", i, typed[i])], log)
    ELSE AdapterNone

\* interactives(): self.interactives prompt reads, one wallet per read; `typed`
\* is what the operator answers to the successive prompts.
interactives(s, typed) ==
    IF s.interactives # 0
    THEN LET n == s.interactives
             bad == FirstBad([i \in 1..n |-> BadKey(typed[i])])
             made == IF bad = 0 THEN n ELSE bad
             log == [i \in 1..made |-> Io("prompt", None, None, typed[i], None, i # bad)]
         IN IF bad # 0
            THEN AdapterErr(IF typed[bad] = PromptAbort THEN "PromptAborted" ELSE "InvalidKey", log)
            ELSE AdapterSome([i \in 1..n |-> get_from_private_key("interactives", i, typed[i])], log)
    ELSE AdapterNone

\* WalletTrait::get_from_mnemonic: the wallet of a phrase, passphrase, path and
\* index.
get_from_mnemonic(pos, mnemonic, passphrase, hd_path, index) ==
    Wallet("mnemonics", pos, hd_path, Some(index), mnemonic, passphrase,
           AddrOf(mnemonic + unwrap_or(passphrase, 0) + unwrap_or(hd_path, 0) + index))

BadPhrase(m) == m \notin Phrases \ {0}

RepeatTake(x, n) == [i \in 1..n |-> x]
MapSome(xs) == [i \in 1..Len(xs) |-> Some(xs[i])]

\* izip!: as long as the shortest of its lists.
izip(as, bs, cs, ds) ==
    LET n == Min(Min(Len(as), Len(bs)), Min(Len(cs), Len(ds)))
    IN [i \in 1..n |-> <<as[i], bs[i], cs[i], ds[i]>>]

mnemonics(s) ==
    IF s.mnemonics.some
    THEN LET ms == s.mnemonics.v
             hd_paths == IF s.hd_paths.some THEN MapSome(s.hd_paths.v)
                         ELSE RepeatTake(None, Len(ms))
             mnemonic_passphrases ==
                 IF s.mnemonic_passphrases.some THEN MapSome(s.mnemonic_passphrases.v)
                 ELSE RepeatTake(None, Len(ms))
             mnemonic_indexes ==
                 IF s.mnemonic_indexes.some THEN s.mnemonic_indexes.v
                 ELSE RepeatTake(0, Len(ms))
             zipped == izip(ms, mnemonic_passphrases, hd_paths, mnemonic_indexes)
             bad == FirstBad([i \in 1..Len(zipped) |-> BadPhrase(zipped[i][1])])
             made == IF bad = 0 THEN Len(zipped) ELSE bad
             log == [i \in 1..made |->
                        Io("mnemonic", zipped[i][3], Some(zipped[i][4]), zipped[i][1],
                           zipped[i][2], i # bad)]
         IN IF bad # 0
            THEN AdapterErr("MnemonicDerivationError", log)
            ELSE AdapterSome([i \in 1..Len(zipped) |->
                                 get_from_mnemonic(i, zipped[i][1], zipped[i][2],
                                                   zipped[i][3], zipped[i][4])], log)
    ELSE AdapterNone

\* WalletTrait::get_from_keystore: the keystore at `path` decrypts with the
\* password that is its own; one at an odd path is not protected and also
\* opens without a password.
KeystoreOpens(path, password) ==
    IF password.some THEN password.v = path ELSE path % 2 = 1

get_from_keystore(pos, path, password) ==
    Wallet("keystores", pos, Some(path), None, 0, password, AddrOf(path))

zip(as, bs) == [i \in 1..Min(Len(as), Len(bs)) |-> <<as[i], bs[i]>>]

keystores_NoCountCheck(s) ==
    IF s.keystore_paths.some
    THEN LET keystore_paths == s.keystore_paths.v
             given == MapSome(unwrap_or(s.keystore_passwords, <<>>))
             passwords == IF given = <<>>
                          THEN RepeatTake(None, Len(keystore_paths))
                          ELSE given
             zipped == zip(keystore_paths, passwords)
             bad == FirstBad([i \in 1..Len(zipped) |->
                                 ~KeystoreOpens(zipped[i][1], zipped[i][2])])
             made == IF bad = 0 THEN Len(zipped) ELSE bad
             log == [i \in 1..made |->
                        Io("keystore", Some(zipped[i][1]), None, 0, zipped[i][2], i # bad)]
         IN IF bad # 0
            THEN AdapterErr("KeystoreDecryptError", log)
            ELSE AdapterSome([i \in 1..Len(zipped) |->
                                 get_from_keystore(i, zipped[i][1], zipped[i][2])], log)
    ELSE AdapterNone

keystores(s) ==
    IF s.keystore_paths.some
    THEN LET keystore_paths == s.keystore_paths.v
             given == MapSome(unwrap_or(s.keystore_passwords, <<>>))
             passwords == IF given = <<>>
                          THEN RepeatTake(None, Len(keystore_paths))
                          ELSE given
             zipped == zip(keystore_paths, passwords)
             bad == FirstBad([i \in 1..Len(zipped) |->
                                 ~KeystoreOpens(zipped[i][1], zipped[i][2])])
             made == IF bad = 0 THEN Len(zipped) ELSE bad
             log == [i \in 1..made |->
                        Io("keystore", Some(zipped[i][1]), None, 0, zipped[i][2], i # bad)]
         IN IF given # <<>> /\ Len(given) # Len(keystore_paths)
            THEN AdapterErr("PasswordCountMismatch", <<>>)
            ELSE IF bad # 0
            THEN AdapterErr("KeystoreDecryptError", log)
            ELSE AdapterSome([i \in 1..Len(zipped) |->
                                 get_from_keystore(i, zipped[i][1], zipped[i][2])], log)
    ELSE AdapterNone

\* The closure of find_all over its script_wallets argument.
script_wallets_fn(sw) ==
    IF sw # <<>> THEN AdapterSome(sw, <<>>) ELSE AdapterNone

----------------------------------------------------------------------------
\* find_all.

Order_LedgersFirst ==
    <<"ledgers", "trezors", "private_keys", "interactives", "mnemonics",
      "keystores", "script_wallets">>

\* The adapters in the order get_wallets! lists them, which is the order the
\* expansion calls them in.
Order ==
    <<"trezors", "ledgers", "private_keys", "interactives", "mnemonics",
      "keystores", "script_wallets">>

EmptyMap == [a \in {} |-> None]
Insert(m, k, v) == [x \in (DOMAIN m) \cup {k} |-> IF x = k THEN v ELSE m[x]]

with_chain_id_Unbound(wallet, chain_id) == wallet

\* Signer::with_chain_id
with_chain_id(wallet, chain_id) == [wallet EXCEPT !.chain = Some(chain_id)]

collect_addresses_NoRemove(local, unused, addrs, addr, wallet) ==
    IF addr \in addrs
    THEN [local |-> Insert(local, addr, wallet), unused |-> unused,
          addresses |-> addrs, ret |-> FALSE]
    ELSE [local |-> local, unused |-> Append(unused, addr),
          addresses |-> addrs, ret |-> FALSE]

collect_addresses_Prepend(local, unused, addrs, addr, wallet) ==
    IF addr \in addrs
    THEN [local |-> Insert(local, addr, wallet), unused |-> unused,
          addresses |-> addrs \ {addr}, ret |-> (addrs \ {addr}) = {}]
    ELSE [local |-> local, unused |-> <<addr>> \o unused,
          addresses |-> addrs, ret |-> FALSE]

collect_addresses_LastWins(local, unused, addrs, addr, wallet) ==
    IF addr \in addrs \/ addr \in DOMAIN local
    THEN [local |-> Insert(local, addr, wallet), unused |-> unused,
          addresses |-> addrs \ {addr}, ret |-> (addrs \ {addr}) = {}]
    ELSE [local |-> local, unused |-> Append(unused, addr),
          addresses |-> addrs, ret |-> FALSE]

collect_addresses_NoReturn(local, unused, addrs, addr, wallet) ==
    IF addr \in addrs
    THEN [local |-> Insert(local, addr, wallet), unused |-> unused,
          addresses |-> addrs \ {addr}, ret |-> FALSE]
    ELSE [local |-> local, unused |-> Append(unused, addr),
          addresses |-> addrs, ret |-> FALSE]

\* collect_addresses!: a wallet whose address is still wanted is taken, and
\* find_all returns when that was the last wanted one (ret); any other wallet's
\* address is noted as unused.
collect_addresses(local, unused, addrs, addr, wallet) ==
    IF addr \in addrs
    THEN [local |-> Insert(local, addr, wallet), unused |-> unused,
          addresses |-> addrs \ {addr}, ret |-> (addrs \ {addr}) = {}]
    ELSE [local |-> local, unused |-> Append(unused, addr),
          addresses |-> addrs, ret |-> FALSE]

NoResult ==
    [status |-> "none", err |-> "", map |-> EmptyMap, remaining |-> {},
     unlocked |-> <<>>, warn |-> FALSE]
Ok(map) == [NoResult EXCEPT !.status = "ok", !.map = map]
Err(e) == [NoResult EXCEPT !.status = "err", !.err = e]

\* The orders a HashMap may hand out its keys in.
KeyOrders(m) ==
    {f \in [1..Cardinality(DOMAIN m) -> DOMAIN m] :
        \A i, j \in 1..Cardinality(DOMAIN m) : f[i] = f[j] => i = j}

\* After adapter number cur: the next `if let` of the expansion, or the code
\* after get_wallets!.
Advance ==
    IF cur < Len(Order)
    THEN pc' = "adapter" /\ cur' = cur + 1
    ELSE pc' = "bail" /\ cur' = cur

\* One `if let Some(wallets) = <adapter call>?` of the expansion, r being what
\* the call returned.
Evaluate(r) ==
    /\ invoked' = Append(invoked, Order[cur])
    /\ io' = io \o r.io
    /\ IF ~r.ok
       THEN /\ result' = Err(r.err)
            /\ pc' = "done"
            /\ UNCHANGED <<cur, wallets>>
       ELSE IF r.some /\ r.wallets # <<>>
       THEN /\ wallets' = r.wallets
            /\ pc' = "collect"
            /\ UNCHANGED <<cur, result>>
       ELSE /\ Advance
            /\ UNCHANGED <<wallets, result>>
    /\ UNCHANGED <<self, script_wallets, addresses, targets, chain,
                   local_wallets, unused_wallets, emitted>>

At(name) == pc = "adapter" /\ Order[cur] = name

\* provider.get_chainid().await?
GetChainId ==
    /\ pc = "chain"
    /\ \E r \in {None} \cup {Some(c) : c \in ChainIds} :
          /\ io' = Append(io, Io("chain", None, None, r.v, None, r.some))
          /\ IF r.some
             THEN chain' = r /\ pc' = "adapter" /\ UNCHANGED result
             ELSE chain' = chain /\ pc' = "done" /\ result' = Err("ChainQueryError")
    /\ UNCHANGED <<self, script_wallets, addresses, targets, cur, wallets,
                   local_wallets, unused_wallets, invoked, emitted>>

Trezors ==
    /\ At("trezors")
    /\ \E fail_at \in 0..Len(HwRequests(self)) : Evaluate(trezors(self, fail_at))

Ledgers ==
    /\ At("ledgers")
    /\ \E fail_at \in 0..Len(HwRequests(self)) : Evaluate(ledgers(self, fail_at))

PrivateKeys == At("private_keys") /\ Evaluate(private_keys(self))

Interactives ==
    /\ At("interactives")
    /\ \E typed \in [1..self.interactives -> PromptInputs] :
          Evaluate(interactives(self, typed))

Mnemonics == At("mnemonics") /\ Evaluate(mnemonics(self))

Keystores == At("keystores") /\ Evaluate(keystores(self))

ScriptWallets == At("script_wallets") /\ Evaluate(script_wallets_fn(script_wallets))

Collect_AnyOrder ==
    /\ pc = "collect"
    /\ \E i \in 1..Len(wallets) :
          LET wallet == with_chain_id(wallets[i], chain.v)
              rest == SubSeq(wallets, 1, i - 1) \o SubSeq(wallets, i + 1, Len(wallets))
              r == collect_addresses(local_wallets, unused_wallets, addresses,
                                     wallets[i].address, wallet)
          IN /\ emitted' = Append(emitted, wallet)
             /\ local_wallets' = r.local
             /\ unused_wallets' = r.unused
             /\ addresses' = r.addresses
             /\ wallets' = rest
             /\ IF r.ret
                THEN result' = Ok(r.local) /\ pc' = "done" /\ cur' = cur
                ELSE /\ result' = result
                     /\ IF rest = <<>>
                        THEN Advance
                        ELSE pc' = pc /\ cur' = cur
    /\ UNCHANGED <<self, script_wallets, targets, chain, invoked, io>>

\* One turn of `for wallet in wallets.into_iter()`.
Collect ==
    /\ pc = "collect"
    /\ LET wallet == with_chain_id(Head(wallets), chain.v)
           r == collect_addresses(local_wallets, unused_wallets, addresses,
                                  Head(wallets).address, wallet)
       IN /\ emitted' = Append(emitted, wallet)
          /\ local_wallets' = r.local
          /\ unused_wallets' = r.unused
          /\ addresses' = r.addresses
          /\ wallets' = Tail(wallets)
          /\ IF r.ret
             THEN result' = Ok(r.local) /\ pc' = "done" /\ cur' = cur
             ELSE /\ result' = result
                  /\ IF Tail(wallets) = <<>>
                     THEN Advance
                     ELSE pc' = pc /\ cur' = cur
    /\ UNCHANGED <<self, script_wallets, targets, chain, invoked, io>>

Bail_WarnOnTargets ==
    /\ pc = "bail"
    /\ \E keys \in KeyOrders(local_wallets) :
          /\ unused_wallets' = unused_wallets \o keys
          /\ result' = [Err("UnresolvedAddresses") EXCEPT
                           !.remaining = addresses,
                           !.unlocked = unused_wallets \o keys,
                           !.warn = DEFAULT_SENDER \in targets]
    /\ local_wallets' = EmptyMap
    /\ pc' = "done"
    /\ UNCHANGED <<self, script_wallets, addresses, targets, chain, cur,
                   wallets, invoked, io, emitted>>

\* The code after get_wallets!: the error that lists the addresses left and
\* the unlocked wallets.
Bail ==
    /\ pc = "bail"
    /\ \E keys \in KeyOrders(local_wallets) :
          /\ unused_wallets' = unused_wallets \o keys
          /\ result' = [Err("UnresolvedAddresses") EXCEPT
                           !.remaining = addresses,
                           !.unlocked = unused_wallets \o keys,
                           !.warn = DEFAULT_SENDER \in addresses]
    /\ local_wallets' = EmptyMap
    /\ pc' = "done"
    /\ UNCHANGED <<self, script_wallets, addresses, targets, chain, cur,
                   wallets, invoked, io, emitted>>

----------------------------------------------------------------------------
\* The configurations and arguments find_all is called with.

ScriptWalletsOf(as) ==
    [i \in 1..Len(as) |-> Wallet("script_wallets", i, None, None, 0, None, as[i])]

NoSource ==
    [interactives |-> 0, private_keys |-> NoneVec, mnemonics |-> NoneVec,
     mnemonic_passphrases |-> NoneVec, hd_paths |-> NoneVec,
     mnemonic_indexes |-> NoneVec, keystore_paths |-> NoneVec,
     keystore_passwords |-> NoneVec, ledger |-> FALSE, trezor |-> FALSE]

\* --mnemonic-indexes has default_value = "0".
DefaultIndexes == Some(<<0>>)

Start ==
    /\ targets = addresses
    /\ chain = None
    /\ pc = "chain"
    /\ cur = 1
    /\ wallets = <<>>
    /\ local_wallets = EmptyMap
    /\ unused_wallets = <<>>
    /\ invoked = <<>>
    /\ io = <<>>
    /\ emitted = <<>>
    /\ result = NoResult

\* Several sources at once, at most MaxLocal software wallets among them.
InitSources ==
    /\ \E tz, lg \in BOOLEAN, n \in 0..1,
          pk \in OptVec(Addr, MaxLen),
          mn \in {NoneVec, Some(<<1>>)},
          ks \in {NoneVec, Some(<<1>>)} :
          /\ Len(pk.v) + n + Len(mn.v) + Len(ks.v) <= MaxLocal
          /\ self = [NoSource EXCEPT !.trezor = tz, !.ledger = lg,
                        !.interactives = n, !.private_keys = pk,
                        !.mnemonics = mn, !.keystore_paths = ks,
                        !.mnemonic_indexes = DefaultIndexes]
    /\ \E as \in SeqsUpTo(Addr, MaxLen) :
          /\ Len(as) + Len(self.private_keys.v) + self.interactives
                + Len(self.mnemonics.v) + Len(self.keystore_paths.v) <= MaxLocal
          /\ script_wallets = ScriptWalletsOf(as)
    /\ addresses \in SUBSET Addr
    /\ Start

\* The hardware wallets alone, over the path and index lists.
InitHardware ==
    /\ \E tz, lg \in BOOLEAN,
          hp \in OptVec({1, 2}, MaxLen),
          mi \in OptVec({0, 1}, MaxLen) :
          /\ tz \/ lg
          /\ self = [NoSource EXCEPT !.trezor = tz, !.ledger = lg,
                        !.hd_paths = hp, !.mnemonic_indexes = mi]
    /\ script_wallets = <<>>
    /\ addresses \in SUBSET Addr
    /\ Start

\* The mnemonics alone, over the four parallel lists.
InitMnemonics ==
    /\ \E mn \in OptVec({0, 1}, MaxLen),
          mp \in OptVec({1}, MaxLen),
          hp \in OptVec({1, 2}, MaxLen),
          mi \in OptVec({0, 1}, MaxLen) :
          self = [NoSource EXCEPT !.mnemonics = mn, !.mnemonic_passphrases = mp,
                     !.hd_paths = hp, !.mnemonic_indexes = mi]
    /\ script_wallets = <<>>
    /\ addresses \in {{}, Addr}
    /\ Start

\* The keystores alone, over the path and password lists (--password has
\* requires = "keystore_paths"), after raw keys that may be malformed.
InitKeystores ==
    /\ \E kp \in OptVec({1, 2}, MaxLen),
          kw \in OptVec({1, 2}, MaxLen),
          pk \in OptVec({0, 1}, 1) :
          /\ kw.some => kp.some
          /\ self = [NoSource EXCEPT !.keystore_paths = kp,
                        !.keystore_passwords = kw, !.private_keys = pk,
                        !.mnemonic_indexes = DefaultIndexes]
    /\ script_wallets = <<>>
    /\ addresses \in {{}, {AddrOf(1)}, Addr}
    /\ Start

\* The prompts alone, before external wallets.
InitPrompts ==
    /\ \E n \in 1..MaxLen :
          self = [NoSource EXCEPT !.interactives = n,
                     !.mnemonic_indexes = DefaultIndexes]
    /\ \E as \in SeqsUpTo(Addr, 1) : script_wallets = ScriptWalletsOf(as)
    /\ addresses \in SUBSET Addr
    /\ Start

Init == InitSources \/ InitHardware \/ InitMnemonics \/ InitKeystores \/ InitPrompts

Next ==
    \/ GetChainId
    \/ Trezors
    \/ Ledgers
    \/ PrivateKeys
    \/ Interactives
    \/ Mnemonics
    \/ Keystores
    \/ ScriptWallets
    \/ Collect
    \/ Bail

Spec == Init /\ [][Next]_vars

----------------------------------------------------------------------------
\* What the properties below read off a state.

Range(s) == {s[i] : i \in 1..Len(s)}
Count(s, x) == Cardinality({i \in 1..Len(s) : s[i] = x})
EmittedAddrs == [i \in 1..Len(emitted) |-> emitted[i].address]

\* The adapter an external interaction belongs to ("" for the chain query).
AdapterOfOp(op) ==
    CASE op = "trezor" -> "trezors"
      [] op = "ledger" -> "ledgers"
      [] op = "private_key" -> "private_keys"
      [] op = "prompt" -> "interactives"
      [] op = "mnemonic" -> "mnemonics"
      [] op = "keystore" -> "keystores"
      [] OTHER -> ""

IoOf(op) == SelectSeq(io, LAMBDA e : e.op = op)

\* The wallets adapter `name` returned: those the loop has taken and, while
\* its list is being walked, the rest of the list.
Produced(name) ==
    SelectSeq(emitted \o wallets, LAMBDA w : w.src = name)

\* The priority order as the source lists it.
Priority(name) ==
    CASE name = "trezors" -> 1
      [] name = "ledgers" -> 2
      [] name = "private_keys" -> 3
      [] name = "interactives" -> 4
      [] name = "mnemonics" -> 5
      [] name = "keystores" -> 6
      [] name = "script_wallets" -> 7
      [] OTHER -> 0

----------------------------------------------------------------------------
\* C1: early exit. Once a match has emptied the remaining target set, find_all
\* has returned the resolved map: it is at its end, nothing more can happen
\* (no further wallet of the current list is taken, no further adapter is
\* called), the adapters called are exactly those up to the current one, and
\* no external interaction belongs to a later adapter.
C1_EarlyExit ==
    (addresses = {} /\ targets # {}) =>
        /\ pc = "done"
        /\ result.status = "ok"
        /\ result.map = local_wallets
        /\ ~ENABLED Next
        /\ emitted[Len(emitted)].address \in targets
        /\ invoked = SubSeq(Order, 1, cur)
        /\ \A i \in 1..Len(io) : \A j \in (cur + 1)..Len(Order) :
              AdapterOfOp(io[i].op) # Order[j]
        /\ \A i \in 1..Len(emitted) : \A j \in (cur + 1)..Len(Order) :
              emitted[i].src # Order[j]

\* C1 witness: the call has returned early from the first device's list with
\* a wallet of that list still untaken and the second device never called.
C1_Witness ==
    /\ result.status = "ok"
    /\ wallets # <<>>
    /\ Order[cur] = "trezors"
    /\ self.ledger
    /\ IoOf("ledger") = <<>>

\* C2 as claimed: the adapters are called in the order ledgers, trezors, raw
\* keys, prompts, mnemonics, keystores, external wallets.
C2_ClaimedOrder ==
    invoked = SubSeq(<<"ledgers", "trezors", "private_keys", "interactives",
                       "mnemonics", "keystores", "script_wallets">>,
                     1, Len(invoked))

\* C2 amended: the adapters are called in the order trezors, ledgers, raw keys,
\* prompts, mnemonics, keystores, external wallets; an adapter is called only
\* when every wallet of the adapters before it has been matched, and the
\* wallets are matched in that order of adapters.
C2_Order ==
    /\ invoked = SubSeq(<<"trezors", "ledgers", "private_keys", "interactives",
                          "mnemonics", "keystores", "script_wallets">>,
                        1, Len(invoked))
    /\ pc = "adapter" =>
          /\ wallets = <<>>
          /\ Len(invoked) = cur - 1
    /\ \A i \in 1..Len(emitted) : emitted[i].src \in Range(invoked)
    /\ \A i, j \in 1..Len(emitted) :
          i < j => Priority(emitted[i].src) <= Priority(emitted[j].src)

\* C2 witness: both hardware adapters are enabled, every adapter has been
\* called and wallets of both devices have been matched.
C2_Witness ==
    /\ self.trezor /\ self.ledger
    /\ Len(invoked) = Len(Order)
    /\ \E i, j \in 1..Len(emitted) :
          emitted[i].src = "trezors" /\ emitted[j].src = "ledgers"

\* C3 as claimed: when no source (and not the chain query) failed and the
\* addresses the sources emitted cover the target set passed in, find_all has
\* returned a map whose keys are exactly the targets, each bound to a wallet
\* of that address.
C3_CoveredTargetsResolve ==
    (/\ pc = "done"
     /\ result.err \in {"", "UnresolvedAddresses"}
     /\ targets \subseteq Range(EmittedAddrs)) =>
        /\ result.status = "ok"
        /\ DOMAIN result.map = targets
        /\ \A a \in DOMAIN result.map : result.map[a].address = a

\* C4 as claimed: the unresolved-addresses error is returned only with
\* targets left over after every adapter was called, and a call that ends with
\* no target left (none on entry included) and no failed source ends in
\* success.
C4_EmptyTargetsSucceed ==
    /\ result.err = "UnresolvedAddresses" =>
          result.remaining # {} /\ invoked = Order
    /\ (pc = "done" /\ addresses = {} /\ result.err \in {"", "UnresolvedAddresses"}) =>
          result.status = "ok"

\* C5 as claimed: no address is in two of the remaining target set, the keys
\* of the resolved map and the unused-wallet list.
C5_Partition ==
    /\ addresses \cap DOMAIN local_wallets = {}
    /\ addresses \cap Range(unused_wallets) = {}
    /\ DOMAIN local_wallets \cap Range(unused_wallets) = {}

\* C5 amended: the remaining target set shares no address with the keys of the
\* resolved map nor with the unused-wallet list, and with the keys it makes up
\* the targets passed in; an address is both a key of the resolved map and in
\* the unused-wallet list exactly when it was matched and then emitted again.
C5_TargetsApart ==
    /\ addresses \cap DOMAIN local_wallets = {}
    /\ addresses \cap Range(unused_wallets) = {}
    /\ (pc # "done" \/ result.status = "ok") =>
          /\ addresses \cup DOMAIN local_wallets = targets
          /\ \A a \in DOMAIN local_wallets :
                a \in Range(unused_wallets) <=> Count(EmittedAddrs, a) >= 2

\* C5 witness: with a target still to find, an address is a key of the
\* resolved map and in the unused-wallet list.
C5_Witness ==
    /\ pc = "collect"
    /\ addresses # {}
    /\ DOMAIN local_wallets \cap Range(unused_wallets) # {}

\* Of the wallets taken so far, in order, the addresses that matched no target
\* still remaining when taken: those outside the targets and the repeats.
RECURSIVE UnmatchedUpTo(_)
UnmatchedUpTo(n) ==
    IF n = 0 THEN <<>>
    ELSE IF \/ emitted[n].address \notin targets
            \/ \E j \in 1..(n - 1) : emitted[j].address = emitted[n].address
         THEN Append(UnmatchedUpTo(n - 1), emitted[n].address)
         ELSE UnmatchedUpTo(n - 1)

\* C6 as claimed: the list of the unresolved-addresses error is the addresses
\* emitted that are no target, in emission order, and holds no matched address.
C6_UnusedOnly ==
    result.err = "UnresolvedAddresses" =>
        /\ result.unlocked = SelectSeq(EmittedAddrs, LAMBDA a : a \notin targets)
        /\ Range(result.unlocked) \cap (targets \ result.remaining) = {}

\* C6 amended: the list of the unresolved-addresses error is, in emission
\* order, the addresses that matched no remaining target when emitted (those
\* outside the target set and the repeats of a matched address), followed by
\* every matched address once, in no fixed order.
C6_UnlockedList ==
    result.err = "UnresolvedAddresses" =>
        LET unmatched == UnmatchedUpTo(Len(emitted))
            matched == targets \ result.remaining
            n == Len(unmatched)
        IN /\ Len(result.unlocked) = n + Cardinality(matched)
           /\ SubSeq(result.unlocked, 1, n) = unmatched
           /\ {result.unlocked[i] : i \in (n + 1)..Len(result.unlocked)} = matched

\* C6 witness: the error lists two different unmatched addresses and a
\* matched one.
C6_Witness ==
    /\ result.err = "UnresolvedAddresses"
    /\ targets \ result.remaining # {}
    /\ Cardinality(Range(UnmatchedUpTo(Len(emitted)))) >= 2

\* C7: first source wins. The wallets are taken in adapter priority order and,
\* within an adapter, in its emission order; a key of the resolved map is bound
\* to the first wallet taken with that address, and every later wallet taken
\* with that address is in the unused-wallet list instead.
C7_FirstWins ==
    /\ \A i, j \in 1..Len(emitted) :
          i < j => \/ Priority(emitted[i].src) < Priority(emitted[j].src)
                   \/ /\ emitted[i].src = emitted[j].src
                      /\ emitted[i].pos < emitted[j].pos
    /\ (pc # "done" \/ result.status = "ok") =>
          \A a \in DOMAIN local_wallets :
             LET first == CHOOSE i \in 1..Len(emitted) :
                             /\ emitted[i].address = a
                             /\ \A j \in 1..(i - 1) : emitted[j].address # a
             IN /\ local_wallets[a] = emitted[first]
                /\ Count(unused_wallets, a) = Count(EmittedAddrs, a) - 1
    /\ result.status = "ok" => result.map = local_wallets

\* C7 witness: two adapters have emitted a wallet of the same target address.
C7_Witness ==
    \E i, j \in 1..Len(emitted) :
        /\ i < j
        /\ emitted[i].address = emitted[j].address
        /\ emitted[i].src # emitted[j].src
        /\ emitted[i].address \in DOMAIN local_wallets

\* A list option's items, none when it is absent.
Items(o) == IF o.some THEN o.v ELSE <<>>
ItemOr(xs, i, d) == IF i <= Len(xs) THEN Some(xs[i]) ELSE d

\* C8 as claimed: the mnemonic adapter, given well-formed phrases, returns one
\* wallet per configured phrase, in order, the i-th from the i-th path, passphrase
\* and index, a list too short for i standing for no path, no passphrase and
\* index 0.
C8_ZipWithDefault ==
    (/\ self.mnemonics.some
     /\ \A i \in 1..Len(self.mnemonics.v) : ~BadPhrase(self.mnemonics.v[i])
     /\ "mnemonics" \in Range(invoked)
     /\ result.err # "MnemonicDerivationError") =>
        LET ws == Produced("mnemonics")
            ms == self.mnemonics.v
        IN /\ Len(ws) = Len(ms)
           /\ \A i \in 1..Len(ws) :
                 /\ ws[i].pos = i
                 /\ ws[i].secret = ms[i]
                 /\ ws[i].path = ItemOr(Items(self.hd_paths), i, None)
                 /\ ws[i].pass = ItemOr(Items(self.mnemonic_passphrases), i, None)
                 /\ ws[i].index = ItemOr(Items(self.mnemonic_indexes), i, Some(0))

\* The device requests C9 claims for a configuration: one per path when paths
\* are configured, else one per index when indexes are, else index 0.
ClaimedRequests(dev, s) ==
    IF Items(s.hd_paths) # <<>>
    THEN [i \in 1..Len(s.hd_paths.v) |->
             Io(dev, Some(s.hd_paths.v[i]), None, 0, None, TRUE)]
    ELSE IF Items(s.mnemonic_indexes) # <<>>
    THEN [i \in 1..Len(s.mnemonic_indexes.v) |->
             Io(dev, None, Some(s.mnemonic_indexes.v[i]), 0, None, TRUE)]
    ELSE <<Io(dev, None, Some(0), 0, None, TRUE)>>

\* C9 as claimed: a hardware adapter whose device requests all succeeded has
\* made exactly the requests above, so none by index when paths are
\* configured, and returned one wallet per request.
C9_WorkList ==
    /\ (/\ self.trezor
        /\ "trezors" \in Range(invoked)
        /\ result.err # "DeviceUnavailable") =>
           /\ IoOf("trezor") = ClaimedRequests("trezor", self)
           /\ Len(Produced("trezors")) = Len(IoOf("trezor"))
    /\ (/\ self.ledger
        /\ "ledgers" \in Range(invoked)
        /\ result.err \notin {"DeviceUnavailable", "MultiPathUnsupported"}) =>
           /\ IoOf("ledger") = ClaimedRequests("ledger", self)
           /\ Len(Produced("ledgers")) = Len(IoOf("ledger"))

\* C10: the ledger adapter, enabled with more than one path, fails with the
\* multi-path error without a request to the device; with exactly one path
\* it makes one request, for that path, whatever indexes are configured, and
\* when the request succeeds returns the one wallet of that path.
C10_LedgerPaths ==
    (self.ledger /\ "ledgers" \in Range(invoked) /\ self.hd_paths.some) =>
        /\ Len(self.hd_paths.v) > 1 =>
              /\ result.err = "MultiPathUnsupported"
              /\ pc = "done"
              /\ IoOf("ledger") = <<>>
              /\ Produced("ledgers") = <<>>
        /\ Len(self.hd_paths.v) = 1 =>
              /\ Len(IoOf("ledger")) = 1
              /\ IoOf("ledger")[1].path = Some(self.hd_paths.v[1])
              /\ IoOf("ledger")[1].index = None
              /\ IF IoOf("ledger")[1].ok
                 THEN /\ Len(Produced("ledgers")) = 1
                      /\ Produced("ledgers")[1].path = Some(self.hd_paths.v[1])
                      /\ Produced("ledgers")[1].index = None
                 ELSE /\ result.err = "DeviceUnavailable"
                      /\ Produced("ledgers") = <<>>

\* C10 witness: the ledger adapter has refused two paths after the trezor
\* adapter answered.
C10_Witness ==
    /\ result.err = "MultiPathUnsupported"
    /\ Len(self.hd_paths.v) > 1
    /\ IoOf("trezor") # <<>>
    /\ IoOf("ledger") = <<>>

\* C11: the keystore adapter, given paths, fails with the password-count
\* error, no keystore opened, whenever passwords are given and are not as
\* many as the paths; otherwise it opens the keystores in path order, each
\* with no password when none is given and path i with password i when they
\* are, and returns one wallet per path in path order unless an open fails.
C11_KeystorePasswords ==
    (self.keystore_paths.some /\ "keystores" \in Range(invoked)) =>
        LET paths == self.keystore_paths.v
            pws == Items(self.keystore_passwords)
            opens == IoOf("keystore")
            ws == Produced("keystores")
        IN IF pws # <<>> /\ Len(pws) # Len(paths)
           THEN /\ result.err = "PasswordCountMismatch"
                /\ opens = <<>>
                /\ ws = <<>>
           ELSE /\ result.err # "PasswordCountMismatch"
                /\ Len(opens) <= Len(paths)
                /\ \A i \in 1..Len(opens) :
                      /\ opens[i].path = Some(paths[i])
                      /\ opens[i].pass = ItemOr(pws, i, None)
                      /\ opens[i].ok <=> KeystoreOpens(paths[i], ItemOr(pws, i, None))
                      /\ ~opens[i].ok => i = Len(opens)
                /\ IF \E i \in 1..Len(opens) : ~opens[i].ok
                   THEN result.err = "KeystoreDecryptError" /\ ws = <<>>
                   ELSE /\ Len(opens) = Len(paths)
                        /\ Len(ws) = Len(paths)
                        /\ \A i \in 1..Len(ws) :
                              /\ ws[i].pos = i
                              /\ ws[i].path = Some(paths[i])
                              /\ ws[i].pass = ItemOr(pws, i, None)

\* C11 witness: two keystores and one password have ended in the
\* password-count error.
C11_Witness ==
    /\ result.err = "PasswordCountMismatch"
    /\ Len(self.keystore_paths.v) = 2
    /\ Len(self.keystore_passwords.v) = 1

\* C12: the chain id is queried once, first of all; when the query fails
\* find_all fails with that error and no adapter is called nor anything else
\* asked; no adapter is called before the chain id is known, and every wallet
\* taken by the matching loop, so every wallet in the resolved map, is bound
\* to the id the query returned.
C12_ChainFirst ==
    /\ Len(IoOf("chain")) <= 1
    /\ io # <<>> => io[1].op = "chain"
    /\ result.err = "ChainQueryError" =>
          /\ pc = "done"
          /\ result.map = EmptyMap
          /\ invoked = <<>>
          /\ Len(io) = 1 /\ ~io[1].ok
          /\ emitted = <<>>
    /\ invoked # <<>> =>
          /\ Len(IoOf("chain")) = 1
          /\ io[1].ok
          /\ chain = Some(io[1].secret)
    /\ \A i \in 1..Len(emitted) : emitted[i].chain = Some(io[1].secret)
    /\ \A a \in DOMAIN local_wallets : local_wallets[a].chain = Some(io[1].secret)
    /\ \A a \in DOMAIN result.map : result.map[a].chain = Some(io[1].secret)

\* C12 witness: with a device enabled, the chain query has failed.
C12_Witness ==
    /\ result.err = "ChainQueryError"
    /\ self.trezor
    /\ targets # {}

\* The errors of the adapters, and the error a failed interaction stands for.
AdapterErrors ==
    {"InvalidKey", "PasswordCountMismatch", "KeystoreDecryptError",
     "MnemonicDerivationError", "PromptAborted", "MultiPathUnsupported",
     "DeviceUnavailable"}

ErrorsOfOp(op) ==
    CASE op \in {"trezor", "ledger"} -> {"DeviceUnavailable"}
      [] op = "private_key" -> {"InvalidKey"}
      [] op = "prompt" -> {"PromptAborted", "InvalidKey"}
      [] op = "mnemonic" -> {"MnemonicDerivationError"}
      [] op = "keystore" -> {"KeystoreDecryptError"}
      [] OTHER -> {}

\* C13: an adapter's error is fatal. A failed interaction of an adapter is the
\* last interaction made and find_all has returned that adapter's error; when
\* find_all returned an adapter's error it returned no map, nothing more can
\* happen, the failing adapter is the last one called, and no wallet of the
\* failing adapter, obtained before the failure or not, was matched or kept.
C13_AdapterErrorsFatal ==
    /\ \A i \in 1..Len(io) :
          (io[i].op # "chain" /\ ~io[i].ok) =>
             /\ i = Len(io)
             /\ result.err \in ErrorsOfOp(io[i].op)
             /\ AdapterOfOp(io[i].op) = Order[cur]
    /\ result.err \in AdapterErrors =>
          /\ pc = "done"
          /\ result.status = "err"
          /\ result.map = EmptyMap
          /\ ~ENABLED Next
          /\ invoked = SubSeq(Order, 1, cur)
          /\ Produced(Order[cur]) = <<>>
          /\ \A i \in 1..Len(io) : \A j \in (cur + 1)..Len(Order) :
                AdapterOfOp(io[i].op) # Order[j]

\* C13 witness: the second request to the first device has failed after the
\* first gave a wallet of a target address.
C13_Witness ==
    /\ result.err = "DeviceUnavailable"
    /\ Len(IoOf("trezor")) = 2
    /\ IoOf("trezor")[1].ok
    /\ get_from_trezor(1, IoOf("trezor")[1].path, IoOf("trezor")[1].index).address
          \in targets

\* C14: the unresolved-addresses error carries the default-sender warning
\* exactly when the default sender is among the addresses reported as left,
\* that is, when it was a target and no wallet taken had that address.
C14_DefaultSenderWarning ==
    result.err = "UnresolvedAddresses" =>
        /\ result.warn <=> DEFAULT_SENDER \in result.remaining
        /\ result.warn <=> /\ DEFAULT_SENDER \in targets
                           /\ DEFAULT_SENDER \notin Range(EmittedAddrs)

\* C14 witness: the default sender was a target and was matched, another
\* target was not, and the error carries no warning.
C14_Witness ==
    /\ result.err = "UnresolvedAddresses"
    /\ DEFAULT_SENDER \in targets
    /\ ~result.warn

\* C16 as claimed: the set the unresolved-addresses error reports as left is
\* the targets passed in less every address emitted, and it is not empty.
C16_RemainingSet ==
    result.err = "UnresolvedAddresses" =>
        /\ result.remaining = targets \ Range(EmittedAddrs)
        /\ result.remaining # {}

\* What the environment answered in the call so far, read off the log: the
\* request a device failed at (0: none) and the answers typed at the prompts
\* (a key, for a prompt not reached).
FailedAt(op) ==
    IF IoOf(op) # <<>> /\ ~IoOf(op)[Len(IoOf(op))].ok THEN Len(IoOf(op)) ELSE 0

TypedSoFar ==
    [i \in 1..self.interactives |->
        IF i <= Len(IoOf("prompt")) THEN IoOf("prompt")[i].secret ELSE 1]

\* What each adapter returns for the configuration, the external wallets and
\* these answers, in priority order.
Returned ==
    <<trezors(self, FailedAt("trezor")), ledgers(self, FailedAt("ledger")),
      private_keys(self), interactives(self, TypedSoFar), mnemonics(self),
      keystores(self), script_wallets_fn(script_wallets)>>

\* The first of the returns that is an error (one past the last: none).
FirstFailing(ret) ==
    IF \E i \in 1..Len(ret) : ~ret[i].ok
    THEN CHOOSE i \in 1..Len(ret) : ~ret[i].ok /\ \A j \in 1..(i - 1) : ret[j].ok
    ELSE Len(ret) + 1

\* The wallets of the first n returns, in order.
RECURSIVE ReturnedUpTo(_, _)
ReturnedUpTo(ret, n) ==
    IF n = 0 THEN <<>> ELSE ReturnedUpTo(ret, n - 1) \o ret[n].wallets

\* The first wallet of the list ws that has address a.
FirstWith(ws, a) ==
    ws[CHOOSE i \in 1..Len(ws) :
           ws[i].address = a /\ \A j \in 1..(i - 1) : ws[j].address # a]

\* The outcome of a call as a function of its inputs alone: the configuration,
\* the external wallets, the targets and the answers of the provider, the
\* devices and the operator.
Expected ==
    LET ret == Returned
        k == FirstFailing(ret)
        ws == ReturnedUpTo(ret, k - 1)
        have == {ws[i].address : i \in 1..Len(ws)}
    IN IF ~io[1].ok
       THEN [status |-> "err", err |-> "ChainQueryError", remaining |-> {},
             unlocked |-> {}, keys |-> {}, from |-> <<>>]
       ELSE IF targets # {} /\ targets \subseteq have
       THEN [status |-> "ok", err |-> "", remaining |-> {}, unlocked |-> {},
             keys |-> targets,
             from |-> [a \in targets |->
                          <<FirstWith(ws, a).src, FirstWith(ws, a).pos, io[1].secret>>]]
       ELSE IF k <= Len(ret)
       THEN [status |-> "err", err |-> ret[k].err, remaining |-> {},
             unlocked |-> {}, keys |-> {}, from |-> <<>>]
       ELSE [status |-> "err", err |-> "UnresolvedAddresses",
             remaining |-> targets \ have, unlocked |-> have,
             keys |-> {}, from |-> <<>>]

\* The outcome reached, up to the order the unlocked wallets are listed in.
Outcome ==
    [status |-> result.status, err |-> result.err, remaining |-> result.remaining,
     unlocked |-> Range(result.unlocked), keys |-> DOMAIN result.map,
     from |-> [a \in DOMAIN result.map |->
                  <<result.map[a].src, result.map[a].pos, result.map[a].chain.v>>]]

\* C15: determinism. The outcome find_all reaches is the one its inputs fix:
\* the same configuration, targets, external wallets and answers give the same
\* success or error, the same remaining set, and on success a map with the
\* same keys, each bound to the wallet of the same position of the same source.
C15_Deterministic ==
    pc = "done" => Outcome = Expected

\* C15 witness: a call that succeeds with two keys bound to wallets of
\* different sources, one address being offered twice.
C15_Witness ==
    /\ result.status = "ok"
    /\ \E a, b \in DOMAIN result.map : result.map[a].src # result.map[b].src
    /\ \E i, j \in 1..Len(emitted) :
          i < j /\ emitted[i].address = emitted[j].address

\* The interactions of an adapter all succeeded.
AllOk(op) == \A i \in 1..Len(IoOf(op)) : IoOf(op)[i].ok

\* C17: an adapter is evaluated to the end before its first wallet is matched.
\* From the state its call returned in, so before and while its wallets are
\* taken and after an early return, a hardware adapter that did not fail has
\* made one request per item of its work list and the prompt adapter that did
\* not fail has made all its prompts: numbers the configuration alone fixes,
\* whatever the targets.
C17_CompleteBeforeMatch ==
    /\ (self.trezor /\ "trezors" \in Range(invoked) /\ AllOk("trezor")) =>
          /\ Len(IoOf("trezor")) = Len(HwRequests(self))
          /\ Len(Produced("trezors")) = Len(HwRequests(self))
    /\ (/\ self.ledger /\ "ledgers" \in Range(invoked) /\ AllOk("ledger")
        /\ result.err # "MultiPathUnsupported") =>
          LET n == IF self.hd_paths.some THEN Len(self.hd_paths.v)
                   ELSE Len(HwRequests(self))
          IN /\ Len(IoOf("ledger")) = n
             /\ Len(Produced("ledgers")) = n
    /\ ("interactives" \in Range(invoked) /\ AllOk("prompt")) =>
          /\ Len(IoOf("prompt")) = self.interactives
          /\ Len(Produced("interactives")) = self.interactives
    /\ \A i \in 1..Len(emitted) :
          emitted[i].src \in Range(invoked)

\* C17 witness: the first of two wallets typed in emptied the target set; both
\* prompts were made and the second wallet was not taken.
C17_Witness ==
    /\ result.status = "ok"
    /\ Order[cur] = "interactives"
    /\ Len(IoOf("prompt")) = 2
    /\ Len(emitted) = 1
    /\ wallets # <<>>

\* C18: the prompt adapter with counter N. N = 0: no prompt, no wallet. Else,
\* when every read succeeds, N prompts were made and N wallets returned, the
\* i-th from the i-th answer; when a read fails it is the last one made,
\* find_all fails with the adapter's error and none of the wallets entered
\* before is returned.
C18_Interactives ==
    "interactives" \in Range(invoked) =>
        LET reads == IoOf("prompt")
            ws == Produced("interactives")
        IN IF self.interactives = 0
           THEN reads = <<>> /\ ws = <<>>
           ELSE /\ Len(reads) \in 1..self.interactives
                /\ \A i \in 1..Len(reads) :
                      /\ reads[i].ok <=> ~BadKey(reads[i].secret)
                      /\ ~reads[i].ok => i = Len(reads)
                /\ IF AllOk("prompt")
                   THEN /\ Len(reads) = self.interactives
                        /\ Len(ws) = self.interactives
                        /\ \A i \in 1..Len(ws) :
                              /\ ws[i].pos = i
                              /\ ws[i].secret = reads[i].secret
                              /\ ws[i].address = AddrOf(reads[i].secret)
                   ELSE /\ ws = <<>>
                        /\ result.err =
                              (IF reads[Len(reads)].secret = PromptAbort
                               THEN "PromptAborted" ELSE "InvalidKey")

\* C18 witness: the second of two prompts was cancelled after a key was
\* entered at the first.
C18_Witness ==
    /\ self.interactives = 2
    /\ result.err = "PromptAborted"
    /\ Len(IoOf("prompt")) = 2
    /\ IoOf("prompt")[1].ok

====
